---- MODULE Spec2Model ----
(***************************************************************************)
(* Model of component_vis/model_evaluation.py: the evaluation functions    *)
(* of a fitted CP model (core consistency, SSE family, classification      *)
(* accuracy, percentage variation).  Each function call is a run of the    *)
(* state machine: Init draws the arguments, the actions are the steps of   *)
(* the function bodies.                                                     *)
(***************************************************************************)
EXTENDS Integers, Sequences, FiniteSets, TLC

\* ------------------------------------------------------------------ bounds
MaxDim == 2        \* mode sizes d_n range over 1..MaxDim
MaxRank == 2       \* component counts R range over 1..MaxRank
NModes == 2        \* number of factor matrices of the CP tensor

\* ------------------------------------------------- exact rational numbers
\* float64 values are modelled by exact fractions <<numerator, denominator>>
\* (all generated values are dyadic or small, so float arithmetic is exact);
\* a division by zero yields a non-finite value (denominator 0).
Abs(x) == IF x < 0 THEN -x ELSE x

Sgn(x) == IF x < 0 THEN -1 ELSE IF x > 0 THEN 1 ELSE 0

Min(a, b) == IF a < b THEN a ELSE b

Max(a, b) == IF a < b THEN b ELSE a

RECURSIVE GCD(_, _)
GCD(a, b) == IF b = 0 THEN a ELSE GCD(b, a % b)

Frac(n, d) ==
  IF d = 0 THEN <<Sgn(n), 0>>
  ELSE LET g == GCD(Abs(n), Abs(d))
           sg == IF d < 0 THEN -1 ELSE 1
       IN  <<sg * (n \div g), sg * (d \div g)>>

Num(n) == <<n, 1>>

IsFinite(a) == a[2] # 0

RAdd(a, b) ==
  IF a[2] = 0 \/ b[2] = 0 THEN Frac(a[1] * b[2] + b[1] * a[2], 0)
  ELSE LET g == GCD(a[2], b[2])
       IN  Frac(a[1] * (b[2] \div g) + b[1] * (a[2] \div g), (a[2] \div g) * b[2])

RNeg(a) == <<-a[1], a[2]>>

RSub(a, b) == RAdd(a, RNeg(b))

RMul(a, b) ==
  IF a[2] = 0 \/ b[2] = 0 THEN Frac(a[1] * b[1], 0)
  ELSE LET x == Frac(a[1], b[2])
           y == Frac(b[1], a[2])
       IN  <<x[1] * y[1], x[2] * y[2]>>

RDiv(a, b) ==
  IF b[1] = 0 THEN Frac(a[1], 0)
  ELSE RMul(a, <<Sgn(b[1]) * b[2], Abs(b[1])>>)

RAbs(a) == <<Abs(a[1]), a[2]>>

\* the sum of g[lo] .. g[hi]
RECURSIVE RSumRange(_, _, _)
RSumRange(g, lo, hi) ==
  IF lo > hi THEN Num(0)
  ELSE IF lo = hi THEN g[lo]
  ELSE LET mid == (lo + hi) \div 2
       IN  RAdd(RSumRange(g, lo, mid), RSumRange(g, mid + 1, hi))

\* ---------------------------------------------------------------- ndarrays
\* An ndarray is [shape |-> <<d_1..d_k>>, data |-> [Indices(shape) -> number]].
RECURSIVE MaxOf(_)
MaxOf(s) == IF s = <<>> THEN 0 ELSE Max(Head(s), MaxOf(Tail(s)))

Indices(shape) ==
  {idx \in [1..Len(shape) -> 1..MaxOf(shape)] :
      \A k \in 1..Len(shape) : idx[k] <= shape[k]}

Arr(shape, F(_)) == [shape |-> shape, data |-> [idx \in Indices(shape) |-> F(idx)]]

\* the number of elements, and the k-th index in row-major order
RECURSIVE Size(_)
Size(shape) == IF shape = <<>> THEN 1 ELSE Head(shape) * Size(Tail(shape))

Unrank(shape, k) ==
  [m \in 1..Len(shape) |->
     (((k - 1) \div Size(SubSeq(shape, m + 1, Len(shape)))) % shape[m]) + 1]

\* the sum of F(idx) over all indices of the shape
SumOver(shape, F(_)) ==
  RSumRange([k \in 1..Size(shape) |-> F(Unrank(shape, k))], 1, Size(shape))

Ndim(a) == Len(a.shape)

Front(s) == SubSeq(s, 1, Len(s) - 1)

\* a bug to compare with: the .T is forgotten
NotTransposed(m) == m

Transpose(m) == Arr(<<m.shape[2], m.shape[1]>>, LAMBDA idx : m.data[<<idx[2], idx[1]>>])

Diag(v) ==
  Arr(<<v.shape[1], v.shape[1]>>,
      LAMBDA idx : IF idx[1] = idx[2] THEN v.data[<<idx[1]>>] ELSE Num(0))

\* np.tensordot(a, x, (1, x.ndim - 1)) for a 2-D a: axis 1 of a is summed
\* against the last axis of x; the result has a's axis 0 first, followed by
\* the remaining axes of x in their order.
TensorDotOk(a, x) == Ndim(x) >= 1 /\ a.shape[2] = x.shape[Ndim(x)]

TensorDot(a, x) ==
  Arr(<<a.shape[1]>> \o Front(x.shape),
      LAMBDA idx :
        RSumRange([j \in 1..a.shape[2] |->
                     RMul(a.data[<<idx[1], j>>], x.data[Tail(idx) \o <<j>>])],
                  1, a.shape[2]))

\* a @ b for 2-D arrays
MatMul(a, b) == TensorDot(a, Transpose(b))

\* np.sum(a ** 2)
SumSquares(a) == SumOver(a.shape, LAMBDA idx : RMul(a.data[idx], a.data[idx]))

\* np.sum(a)
SumAll(a) == SumOver(a.shape, LAMBDA idx : a.data[idx])

\* numpy broadcasting of two shapes (aligned at the trailing axes)
PadShape(shape, n) == [k \in 1..n |-> IF k <= n - Len(shape) THEN 1 ELSE shape[k - (n - Len(shape))]]

Broadcastable(sa, sb) ==
  LET n == Max(Len(sa), Len(sb))
      pa == PadShape(sa, n)
      pb == PadShape(sb, n)
  IN  \A k \in 1..n : pa[k] = pb[k] \/ pa[k] = 1 \/ pb[k] = 1

BroadcastShape(sa, sb) ==
  LET n == Max(Len(sa), Len(sb))
      pa == PadShape(sa, n)
      pb == PadShape(sb, n)
  IN  [k \in 1..n |-> Max(pa[k], pb[k])]

\* the element of a that index idx of the broadcast result reads
BroadcastGet(a, idx) ==
  LET n == Len(idx)
      off == n - Ndim(a)
  IN  a.data[[k \in 1..Ndim(a) |-> IF a.shape[k] = 1 THEN 1 ELSE idx[k + off]]]

\* a - b with broadcasting
Subtract(a, b) ==
  Arr(BroadcastShape(a.shape, b.shape),
      LAMBDA idx : RSub(BroadcastGet(a, idx), BroadcastGet(b, idx)))

\* --------------------------------------------------------------- sla.svd
\* The generated factor matrices have at most one nonzero entry in every row
\* and every column, so their reduced SVD is exact: the singular values are
\* the magnitudes of the nonzero entries in descending order, padded with
\* zeros to K = min(d, R); U is d x K, Vh is K x R.
ColRow(m, r) ==
  IF \E i \in 1..m.shape[1] : m.data[<<i, r>>][1] # 0
  THEN CHOOSE i \in 1..m.shape[1] : m.data[<<i, r>>][1] # 0
  ELSE 0

NzCols(m) == {r \in 1..m.shape[2] : ColRow(m, r) # 0}

ColMag(m, r) == RAbs(m.data[<<ColRow(m, r), r>>])

RLess(a, b) == a[1] * b[2] < b[1] * a[2]

\* position of column r among the singular values (descending, stable)
SvPos(m, r) ==
  1 + Cardinality({q \in NzCols(m) :
        \/ RLess(ColMag(m, r), ColMag(m, q))
        \/ (ColMag(m, q) = ColMag(m, r) /\ q < r)})

NthSmallest(S, j) == CHOOSE x \in S : Cardinality({y \in S : y < x}) = j - 1

SvCol(m, k) ==
  LET nz == NzCols(m)
  IN  IF k <= Cardinality(nz)
      THEN CHOOSE r \in nz : SvPos(m, r) = k
      ELSE NthSmallest((1..m.shape[2]) \ nz, k - Cardinality(nz))

SvRow(m, k) ==
  LET nz == NzCols(m)
  IN  IF k <= Cardinality(nz)
      THEN ColRow(m, SvCol(m, k))
      ELSE NthSmallest((1..m.shape[1]) \ {ColRow(m, r) : r \in nz}, k - Cardinality(nz))

\* sla.svd(factor, full_matrices=False); flip is the sign LAPACK gives the
\* singular vectors, which the decomposition leaves open.
Svd(m, flip) ==
  LET K == Min(m.shape[1], m.shape[2])
      nnz == Cardinality(NzCols(m))
      sgn(k) == IF k <= nnz THEN Sgn(m.data[<<SvRow(m, k), SvCol(m, k)>>][1]) ELSE 1
  IN  [U  |-> Arr(<<m.shape[1], K>>,
                  LAMBDA idx : IF idx[1] = SvRow(m, idx[2])
                               THEN Num(flip * sgn(idx[2])) ELSE Num(0)),
       s  |-> Arr(<<K>>,
                  LAMBDA idx : IF idx[1] <= nnz THEN ColMag(m, SvCol(m, idx[1])) ELSE Num(0)),
       Vh |-> Arr(<<K, m.shape[2]>>,
                  LAMBDA idx : IF idx[2] = SvCol(m, idx[1]) THEN Num(flip) ELSE Num(0))]

\* ------------------------------------------------- the objects of a call
\* Arrays live in a heap of objects so that in-place operations and aliasing
\* are visible.  Caller-owned objects:
FactorRef(n) == <<"factor", n>>

WeightsRef == <<"weights", 0>>

XRef == <<"X", 0>>

\* objects created during the call
ARef == <<"A", 0>>

SRef(n) == <<"s", n>>

SPinvRef == <<"s_pinv", 0>>

\* an absent reference, an absent array, no exception
None == <<"None", 0>>

NoArray == [shape |-> <<>>, data |-> <<>>]

NoError == "None"

\* a bug to compare with: the array is used without .copy()
NoCopy(ref, fresh) == ref

\* ndarray.copy(): the result is a new object (fresh), not the source object
NdCopy(ref, fresh) == fresh

\* A *= weights.reshape(1, -1): column r of A scaled by weight r
\* (in-place broadcasting: the row vector must broadcast to A's shape)
ScaleOk(a, w) == w.shape[1] = a.shape[2] \/ w.shape[1] = 1

ScaleColumns(a, w) ==
  Arr(a.shape,
      LAMBDA idx : RMul(a.data[idx],
                        w.data[<<IF w.shape[1] = 1 THEN 1 ELSE idx[2]>>]))

\* a bug to compare with: 1 / s_pinv without the mask
PinvUnmasked(sp) == Arr(sp.shape, LAMBDA idx : RDiv(Num(1), sp.data[idx]))

\* lines 35-37: s_pinv[mask] = 1 / s_pinv[mask] with mask = s_pinv != 0
PinvMasked(sp) ==
  Arr(sp.shape,
      LAMBDA idx : IF sp.data[idx][1] # 0 THEN RDiv(Num(1), sp.data[idx]) ELSE sp.data[idx])

\* a bug to compare with: the loops run over svds instead of svds[::-1]
ForwardMode(n, i) == i

\* svds[::-1]: the factor handled in iteration i (1-based) of a pass
LoopMode(n, i) == n + 1 - i

\* T = np.zeros([rank] * X.ndim); np.fill_diagonal(T, 1)
FillDiagonalOk(ndim) == ndim >= 2

SuperDiagonal(rank, ndim) ==
  Arr([k \in 1..ndim |-> rank],
      LAMBDA idx : IF \A k \in 1..ndim : idx[k] = idx[1] THEN Num(1) ELSE Num(0))

\* a bug to compare with: normalised is not looked at
DenomIgnoresNormalised(G, rank, normalised) == Num(rank)

\* line 135-138
Denom(G, rank, normalised) == IF normalised THEN SumSquares(G) ELSE Num(rank)

\* line 140
Score(G, T, denom) ==
  LET d == Subtract(G, T)
  IN  RSub(Num(100), RDiv(RMul(Num(100), SumSquares(d)), denom))

\* factor_tools.construct_cp_tensor: sum over the components of the weighted
\* outer products of the factor columns
ConstructCpTensor(weights, factors) ==
  LET R == factors[1].shape[2]
  IN  Arr([n \in 1..Len(factors) |-> factors[n].shape[1]],
          LAMBDA idx :
            RSumRange([r \in 1..R |->
                         LET RECURSIVE Prod(_)
                             Prod(n) == IF n = 0 THEN Num(1)
                                        ELSE RMul(factors[n].data[<<idx[n], r>>], Prod(n - 1))
                         IN  RMul(IF weights = NoArray THEN Num(1) ELSE weights.data[<<r>>],
                                  Prod(Len(factors)))],
                      1, R))

\* ------------------------------------------------------------------ inputs
Modes == 1..NModes

\* factor matrix with the component r on its diagonal: columns of growing norm
FactorDiag(d, R) ==
  Arr(<<d, R>>, LAMBDA idx : IF idx[1] = idx[2] THEN Num(idx[2]) ELSE Num(0))

\* factor matrix on the anti-diagonal with negative entries and a zero column
FactorAnti(d, R) ==
  Arr(<<d, R>>,
      LAMBDA idx : IF idx[1] = d + 1 - idx[2] /\ idx[2] # 2 THEN Num(-idx[2]) ELSE Num(0))

FactorChoices(d, R) == {FactorDiag(d, R), FactorAnti(d, R)}

WeightVector(R) == Arr(<<R>>, LAMBDA idx : IF idx[1] = 1 THEN Num(2) ELSE Num(-1))

WeightChoices(R) == {NoArray, WeightVector(R)}

\* data tensor whose entries vary along every axis
RampTensor(shape) ==
  Arr(shape,
      LAMBDA idx :
        LET RECURSIVE Pos(_)
            Pos(k) == IF k = 0 THEN 0 ELSE (idx[k] - 1) + (MaxDim + 1) * Pos(k - 1)
        IN  Num(1 + (Pos(Len(shape)) % 7)))

ZeroTensor(shape) == Arr(shape, LAMBDA idx : Num(0))

CpInput(fname, w, fs, x, nrm) ==
  [fn |-> fname, weights |-> w, factors |-> fs, X |-> x, normalised |-> nrm]

\* which factors are anti-diagonal: none, the first, the last, all
AntiChoices == {{}, {1}, {NModes}, Modes}

ConstantDims == {[n \in Modes |-> d] : d \in 1..MaxDim}

\* shape-consistent calls
ConsistentInputs ==
  UNION {
    LET fs == [n \in Modes |-> IF n \in anti THEN FactorAnti(dims[n], R)
                               ELSE FactorDiag(dims[n], R)]
        w == WeightVector(R)
    IN  {CpInput("core_consistency", NoArray, fs, RampTensor(dims), nrm) : nrm \in BOOLEAN}
        \cup
        {CpInput("core_consistency", w, fs, RampTensor(dims), nrm) : nrm \in BOOLEAN}
        \cup
        {CpInput("core_consistency", NoArray, fs, ConstructCpTensor(NoArray, fs), FALSE),
         CpInput("core_consistency", w, fs, ConstructCpTensor(w, fs), TRUE),
         CpInput("core_consistency", NoArray, fs, ZeroTensor(dims), TRUE),
         CpInput("estimate_core_tensor", NoArray, fs, RampTensor(dims), FALSE)}
    : R \in 1..MaxRank, dims \in [Modes -> 1..MaxDim], anti \in AntiChoices}

\* calls where one factor may have another column count, one axis of X another
\* size, or X another number of axes
MismatchInputs ==
  UNION {
    LET base == [n \in Modes |-> FactorDiag(dims[n], R)]
    IN  {CpInput("core_consistency", w,
                 [base EXCEPT ![m] = FactorDiag(dims[m], R2)], RampTensor(dims), FALSE) :
           m \in Modes, R2 \in 1..MaxRank, w \in WeightChoices(R)}
        \cup
        {CpInput("core_consistency", NoArray, base, RampTensor(<<e>> \o dims), FALSE) :
           e \in 1..MaxDim}
        \cup
        {CpInput("core_consistency", NoArray, base, RampTensor(Tail(dims)), FALSE)}
    : R \in 1..MaxRank, dims \in ConstantDims}
  \cup
  UNION {
    {CpInput("core_consistency", NoArray, [n \in Modes |-> FactorDiag(dims[n], R)],
             RampTensor([dims EXCEPT ![m] = d2]), FALSE) :
       m \in Modes, d2 \in 1..MaxDim}
    : R \in 1..MaxRank, dims \in [Modes -> 1..MaxDim]}

CoreInputs == ConsistentInputs \cup MismatchInputs

\* ------------------------------------------------------------------- state
VARIABLES
  fn,         \* the function that was called
  pc,         \* position in the function body
  heap,       \* the array objects: reference -> ndarray
  args,       \* the arguments of the call
  rank,       \* core_consistency: rank
  factors,    \* the tuple of factor references handed to estimate_core_tensor
  svds,       \* estimate_core_tensor: svds
  X,          \* estimate_core_tensor: the local X
  i,          \* iteration of the current loop over svds[::-1]
  axes,       \* for every axis of the local X, the axis of the data tensor it stems from
  G,          \* core_consistency: the estimated core
  result,     \* the returned value
  err,        \* the raised exception
  calls       \* classification_accuracy: the calls made on the classifier and the metric

vars == <<fn, pc, heap, args, rank, factors, svds, X, i, axes, G, result, err, calls>>

\* the locals of core_consistency and estimate_core_tensor
coreLocals == <<rank, factors, svds, X, i, axes, G>>

CallerHeap(in) ==
  [ref \in {FactorRef(n) : n \in 1..Len(in.factors)}
              \cup (IF in.X = NoArray THEN {} ELSE {XRef})
              \cup (IF in.weights = NoArray THEN {} ELSE {WeightsRef}) |->
     IF ref = XRef THEN in.X
     ELSE IF ref = WeightsRef THEN in.weights
     ELSE in.factors[ref[2]]]

Init ==
  \E in \in CoreInputs :
    /\ fn = in.fn
    /\ pc = IF in.fn = "core_consistency" THEN "core_consistency" ELSE "estimate_core_tensor"
    /\ heap = CallerHeap(in)
    /\ args = [weights |-> IF in.weights = NoArray THEN None ELSE WeightsRef,
               factors |-> [n \in 1..Len(in.factors) |-> FactorRef(n)],
               X |-> XRef,
               normalised |-> in.normalised]
    /\ rank = 0
    /\ factors = IF in.fn = "core_consistency" THEN <<>>
                 ELSE [n \in 1..Len(in.factors) |-> FactorRef(n)]
    /\ svds = <<>> /\ X = NoArray /\ i = 0
    /\ axes = <<>> /\ G = NoArray /\ result = NoArray /\ err = NoError
    /\ calls = <<>>

Raise(exc) == pc' = "raised" /\ err' = exc

\* np.tensordot(a, X, (1, X.ndim - 1)): the last axis of X is consumed and
\* the new axis, which stems from it, comes first
DotAxes(ax) == <<ax[Len(ax)]>> \o Front(ax)

\* core_consistency, lines 122-129: distribute the weights over a copy of
\* the first factor matrix, then call estimate_core_tensor
DistributeWeights ==
  /\ pc = "core_consistency"
  /\ LET first == args.factors[1]
         A == NdCopy(first, ARef)
         h == (A :> heap[first]) @@ heap
     IN  /\ rank' = heap[first].shape[2]
         /\ factors' = <<A>> \o Tail(args.factors)
         /\ IF args.weights = None
            THEN heap' = h /\ pc' = "estimate_core_tensor" /\ err' = err
            ELSE IF ScaleOk(h[A], heap[args.weights])
            THEN /\ heap' = [h EXCEPT ![A] = ScaleColumns(h[A], heap[args.weights])]
                 /\ pc' = "estimate_core_tensor" /\ err' = err
            ELSE heap' = h /\ Raise("ValueError")
  /\ UNCHANGED <<fn, args, svds, X, i, axes, G, result, calls>>

\* estimate_core_tensor, line 31
ComputeSvds ==
  /\ pc = "estimate_core_tensor"
  /\ \E flip \in {1, -1} :
       LET dec == [n \in 1..Len(factors) |-> Svd(heap[factors[n]], flip)]
       IN  /\ svds' = [n \in 1..Len(factors) |->
                         [U |-> dec[n].U, s |-> SRef(n), Vh |-> dec[n].Vh]]
           /\ heap' = [ref \in {SRef(n) : n \in 1..Len(factors)} |-> dec[ref[2]].s] @@ heap
  /\ X' = heap[args.X]
  /\ axes' = [k \in 1..Ndim(heap[args.X]) |-> k]
  /\ i' = 1
  /\ pc' = "contract_U"
  /\ UNCHANGED <<fn, args, rank, factors, G, result, err, calls>>

\* one iteration of a loop over svds[::-1] that replaces X by tensordot(a, X)
LoopStep(a, after) ==
  IF TensorDotOk(a, X)
  THEN /\ X' = TensorDot(a, X)
       /\ axes' = DotAxes(axes)
       /\ IF i = Len(svds) THEN i' = 1 /\ pc' = after ELSE i' = i + 1 /\ pc' = pc
       /\ err' = err
  ELSE Raise("ValueError") /\ UNCHANGED <<X, axes, i>>

\* lines 32-33
ContractU ==
  /\ pc = "contract_U"
  /\ LoopStep(Transpose(svds[LoopMode(Len(svds), i)].U), "scale_s")
  /\ UNCHANGED <<fn, heap, args, rank, factors, svds, G, result, calls>>

\* lines 34-38
ScaleS ==
  /\ pc = "scale_s"
  /\ LET s == svds[LoopMode(Len(svds), i)].s
         s_pinv == NdCopy(s, SPinvRef)
         h == (s_pinv :> PinvMasked(heap[s])) @@ heap
     IN  /\ heap' = h
         /\ LoopStep(Diag(h[s_pinv]), "contract_Vh")
  /\ UNCHANGED <<fn, args, rank, factors, svds, G, result, calls>>

\* lines 39-40
ContractVh ==
  /\ pc = "contract_Vh"
  /\ LoopStep(Transpose(svds[LoopMode(Len(svds), i)].Vh), "return")
  /\ UNCHANGED <<fn, heap, args, rank, factors, svds, G, result, calls>>

\* line 41, and line 132 of the caller
ReturnCore ==
  /\ pc = "return"
  /\ IF fn = "estimate_core_tensor"
     THEN result' = X /\ pc' = "done" /\ G' = G
     ELSE G' = X /\ pc' = "compare" /\ result' = result
  /\ UNCHANGED <<fn, heap, args, rank, factors, svds, X, i, axes, err, calls>>

\* core_consistency, lines 133-140
Compare ==
  /\ pc = "compare"
  /\ LET ndim == Ndim(heap[args.X])
     IN  IF ~FillDiagonalOk(ndim) THEN Raise("ValueError") /\ result' = result
         ELSE LET T == SuperDiagonal(rank, ndim)
              IN  IF ~Broadcastable(G.shape, T.shape)
                  THEN Raise("ValueError") /\ result' = result
                  ELSE /\ result' = Score(G, T, Denom(G, rank, args.normalised))
                       /\ pc' = "done" /\ err' = err
  /\ UNCHANGED <<fn, heap, args, rank, factors, svds, X, i, axes, G, calls>>

Next ==
  \/ DistributeWeights
  \/ ComputeSvds
  \/ ContractU
  \/ ScaleS
  \/ ContractVh
  \/ ReturnCore
  \/ Compare

Spec == Init /\ [][Next]_vars

\* ------------------------------------------------ what the claims refer to
CallerFactor(n) == heap[FactorRef(n)]

CallerX == heap[XRef]

NFactors == Len(args.factors)

HasWeights == args.weights # None

\* all factors have the same column count and X has one axis per factor, of
\* the factor's row count
ShapeConsistent ==
  /\ \A n \in 1..NFactors : CallerFactor(n).shape[2] = CallerFactor(1).shape[2]
  /\ Ndim(CallerX) = NFactors
  /\ \A n \in 1..NFactors : CallerX.shape[n] = CallerFactor(n).shape[1]

\* the Moore-Penrose pseudo-inverse of a matrix with at most one nonzero
\* entry per row and column: transpose, nonzero entries inverted
PseudoInverse(m) ==
  Arr(<<m.shape[2], m.shape[1]>>,
      LAMBDA idx : IF m.data[<<idx[2], idx[1]>>][1] = 0 THEN Num(0)
                   ELSE <<Sgn(m.data[<<idx[2], idx[1]>>][1]) * m.data[<<idx[2], idx[1]>>][2],
                          Abs(m.data[<<idx[2], idx[1]>>][1])>>)

\* the best-fit Tucker core: x multiplied along every mode n by the
\* pseudo-inverse of the n-th matrix
TuckerCore(ms, x) ==
  LET pinv == [n \in 1..Len(ms) |-> PseudoInverse(ms[n])]
  IN  Arr([n \in 1..Len(ms) |-> ms[n].shape[2]],
          LAMBDA idx :
            SumOver(x.shape,
                    LAMBDA j :
                      LET RECURSIVE Coef(_)
                          Coef(n) == IF n = 0 THEN Num(1)
                                     ELSE RMul(pinv[n].data[<<idx[n], j[n]>>], Coef(n - 1))
                      IN  RMul(Coef(Len(ms)), x.data[j])))

\* the first factor with weight r multiplied into column r
WeightedFirst ==
  IF HasWeights
  THEN Arr(CallerFactor(1).shape,
           LAMBDA idx : RMul(CallerFactor(1).data[idx], heap[WeightsRef].data[<<idx[2]>>]))
  ELSE CallerFactor(1)

ExpectedCore ==
  TuckerCore([n \in 1..NFactors |-> IF n = 1 THEN WeightedFirst ELSE CallerFactor(n)], CallerX)

Identity(R, N) ==
  Arr([n \in 1..N |-> R],
      LAMBDA idx : IF \A n \in 1..N : idx[n] = idx[1] THEN Num(1) ELSE Num(0))

SquaredDistance(a, b) ==
  SumOver(a.shape,
          LAMBDA idx : RMul(RSub(a.data[idx], b.data[idx]), RSub(a.data[idx], b.data[idx])))

\* denom of the claim for the core E
ExpectedDenom(E) ==
  IF args.normalised THEN SquaredDistance(E, ZeroTensor(E.shape))
  ELSE Num(CallerFactor(1).shape[2])

ExpectedScore(E, denom) ==
  LET I == Identity(CallerFactor(1).shape[2], NFactors)
  IN  RSub(Num(100), RDiv(RMul(Num(100), SquaredDistance(E, I)), denom))

CoreConsistencyReturned == fn = "core_consistency" /\ pc = "done"

\* C4: core_consistency returns 100 - 100 * sum((G - I)^2) / denom for the
\* core G of the weight-scaled factors, with denom = R or sum(G^2); the score
\* is 100 exactly when G = I and below 100 otherwise when denom > 0.
C4_CoreConsistencyFormula ==
  (CoreConsistencyReturned /\ ShapeConsistent) =>
    LET E == ExpectedCore
        denom == ExpectedDenom(E)
    IN  /\ G = E
        /\ result = ExpectedScore(E, denom)
        /\ denom[1] > 0 =>
             /\ (result = Num(100)) <=> (E = Identity(CallerFactor(1).shape[2], NFactors))
             /\ ~RLess(Num(100), result)

C4_Witness ==
  /\ CoreConsistencyReturned /\ ShapeConsistent /\ HasWeights /\ args.normalised
  /\ CallerFactor(1).shape[2] = 2
  /\ result = Num(100)

C4_WitnessBelow ==
  /\ CoreConsistencyReturned /\ ShapeConsistent /\ HasWeights /\ ~args.normalised
  /\ RLess(result, Num(0))

\* C5: no call changes a caller-owned array (factor matrices, weights, X),
\* and the singular values s are never changed either: the scaling and the
\* inversion work on copies.
C5_CallerArraysUntouched ==
  [][\A ref \in DOMAIN heap :
       ref[1] \in {"factor", "weights", "X", "s"} => heap'[ref] = heap[ref]]_vars

C5_Witness ==
  /\ pc = "done" /\ HasWeights
  /\ heap[ARef] # CallerFactor(1)
  /\ heap[SPinvRef] # heap[SRef(1)]

C5_WitnessDirect ==
  /\ pc = "done" /\ fn = "estimate_core_tensor"
  /\ heap[SPinvRef] # heap[SRef(1)]

\* C7: for shape-inconsistent input core_consistency ends in an error, never
\* in a returned score.
C7_MismatchRaises == ~ShapeConsistent => ~CoreConsistencyReturned

\* C8: for consistent shapes estimate_core_tensor returns, without raising,
\* an array of shape (R, ..., R), also when some d_n < R.
C8_CoreShape ==
  ShapeConsistent =>
    /\ pc # "raised" \/ fn # "estimate_core_tensor"
    /\ pc \in {"contract_U", "scale_s", "contract_Vh"} => err = NoError
    /\ (fn = "estimate_core_tensor" /\ pc = "done") =>
         result.shape = [n \in 1..NFactors |-> CallerFactor(1).shape[2]]
    /\ pc = "compare" => G.shape = [n \in 1..NFactors |-> CallerFactor(1).shape[2]]

C8_Witness ==
  /\ fn = "estimate_core_tensor" /\ pc = "done" /\ ShapeConsistent
  /\ CallerFactor(1).shape[1] < CallerFactor(1).shape[2]
  /\ CallerFactor(2).shape[1] = CallerFactor(2).shape[2]
  /\ result.shape = [n \in 1..NFactors |-> CallerFactor(1).shape[2]]

\* the mode whose singular values were inverted last
LastScaled == IF pc = "scale_s" THEN LoopMode(Len(svds), i - 1) ELSE 1

\* an iteration of the scaling loop has just finished
ScaledSome == (pc = "scale_s" /\ i > 1) \/ (pc = "contract_Vh" /\ i = 1)

\* C9: the scaling uses 0 for a singular value 0 and 1/s for a nonzero s; no
\* division by zero happens (every entry stays finite) and the slice of the
\* intermediate tensor that belongs to a zero singular value is zero.
C9_PseudoInverseOfS ==
  /\ ScaledSome =>
       LET s == heap[SRef(LastScaled)]
           sp == heap[SPinvRef]
       IN  /\ sp.shape = s.shape
           /\ \A k \in 1..s.shape[1] :
                /\ IsFinite(sp.data[<<k>>])
                /\ s.data[<<k>>][1] = 0 => sp.data[<<k>>] = Num(0)
                /\ s.data[<<k>>][1] # 0 => RMul(s.data[<<k>>], sp.data[<<k>>]) = Num(1)
           /\ \A idx \in Indices(X.shape) :
                s.data[<<idx[1]>>][1] = 0 => X.data[idx] = Num(0)
  /\ X # NoArray => \A idx \in Indices(X.shape) : IsFinite(X.data[idx])

C9_Witness ==
  /\ pc = "contract_Vh" /\ i = 1
  /\ \E k \in 1..heap[SRef(1)].shape[1] :
        heap[SRef(1)].data[<<k>>][1] = 0 /\ heap[SPinvRef].data[<<k>>] = Num(0)
  /\ \E k \in 1..heap[SRef(1)].shape[1] : heap[SRef(1)].data[<<k>>][1] > 1
  /\ \E idx \in Indices(X.shape) : X.data[idx][1] # 0

\* C10: in every pass the matrices of factor n meet the axis that stems from
\* mode n of X; after every complete pass the axes are in mode order again,
\* and the returned core is the mode-wise product in that order.
C10_ModeOrder ==
  (Ndim(CallerX) = NFactors /\ err = NoError) =>
    /\ pc \in {"contract_U", "scale_s", "contract_Vh"} =>
         /\ axes[Len(axes)] = LoopMode(Len(svds), i)
         /\ i = 1 => axes = [k \in 1..NFactors |-> k]
    /\ pc \in {"return", "compare", "done"} => axes = [k \in 1..NFactors |-> k]
    /\ (fn = "estimate_core_tensor" /\ pc = "done" /\ ShapeConsistent) =>
         result = TuckerCore([n \in 1..NFactors |-> CallerFactor(n)], CallerX)

C10_Witness ==
  /\ fn = "estimate_core_tensor" /\ pc = "done" /\ ShapeConsistent
  /\ CallerFactor(1).shape[1] # CallerFactor(2).shape[1]
  /\ CallerFactor(1) # CallerFactor(2)
  /\ \E idx \in Indices(result.shape) : result.data[idx][1] # 0
  /\ axes = [k \in 1..NFactors |-> k]

\* the decomposition handed out by Svd is a reduced SVD of the factor
SvdValid ==
  pc \in {"contract_U", "scale_s", "contract_Vh", "return"} =>
    \A n \in 1..Len(svds) :
      LET U == svds[n].U
          Vh == svds[n].Vh
          s == heap[svds[n].s]
          F == heap[factors[n]]
          K == s.shape[1]
          Eye == Arr(<<K, K>>, LAMBDA idx : IF idx[1] = idx[2] THEN Num(1) ELSE Num(0))
      IN  /\ K = Min(F.shape[1], F.shape[2])
          /\ MatMul(U, MatMul(Diag(s), Vh)) = F
          /\ MatMul(Transpose(U), U) = Eye
          /\ MatMul(Vh, Transpose(Vh)) = Eye
          /\ \A k \in 1..K : s.data[<<k>>][1] >= 0
          /\ \A k \in 1..(K - 1) : ~RLess(s.data[<<k>>], s.data[<<k + 1>>])

\* ------------------------------------------------ sse, relative_sse, fit
ArgWeights == IF args.weights = None THEN NoArray ELSE heap[args.weights]

ArgFactors == [n \in 1..Len(args.factors) |-> heap[args.factors[n]]]

\* an optional number: sum_squared_X=None is [given |-> FALSE]
Absent == [given |-> FALSE, value |-> Num(0)]

Given(v) == [given |-> TRUE, value |-> v]

\* lines 146-147
SseValue(weights, fs, x) == SumSquares(Subtract(x, ConstructCpTensor(weights, fs)))

\* lines 153-154
RelativeSseValue(weights, fs, x, sum_squared_X) ==
  LET sum_squared_x == SumSquares(x)
  IN  RDiv(SseValue(weights, fs, x), sum_squared_x)

\* line 160
FitValue(weights, fs, x, sum_squared_X) ==
  RSub(Num(1), RelativeSseValue(weights, fs, x, sum_squared_X))

SseInputs ==
  UNION {
    LET fs == [n \in Modes |-> IF n \in anti THEN FactorAnti(dims[n], R)
                               ELSE FactorDiag(dims[n], R)]
    IN  {[fn |-> f, weights |-> w, factors |-> fs, X |-> x, sum_squared_X |-> q] :
           f \in {"sse", "relative_sse", "fit"},
           w \in WeightChoices(R),
           x \in {RampTensor(dims), ConstructCpTensor(WeightVector(R), fs)},
           q \in {Absent, Given(Num(10)), Given(SumSquares(RampTensor(dims)))}}
    : R \in 1..MaxRank, dims \in [Modes -> 1..MaxDim], anti \in AntiChoices}

InitSse ==
  \E in \in SseInputs :
    /\ fn = in.fn
    /\ pc = in.fn
    /\ heap = CallerHeap(in)
    /\ args = [weights |-> IF in.weights = NoArray THEN None ELSE WeightsRef,
               factors |-> [n \in 1..Len(in.factors) |-> FactorRef(n)],
               X |-> XRef,
               sum_squared_X |-> in.sum_squared_X]
    /\ rank = 0 /\ factors = <<>> /\ svds = <<>> /\ X = NoArray /\ i = 0
    /\ axes = <<>> /\ G = NoArray /\ result = Num(0) /\ err = NoError
    /\ calls = <<>>

\* X - X_hat needs broadcastable shapes
SseOk == Broadcastable(heap[args.X].shape, ConstructCpTensor(ArgWeights, ArgFactors).shape)

Returns(v) ==
  IF SseOk THEN result' = v /\ pc' = "done" /\ err' = err
  ELSE Raise("ValueError") /\ result' = result

\* sse, lines 143-147
Sse ==
  /\ pc = "sse"
  /\ Returns(SseValue(ArgWeights, ArgFactors, heap[args.X]))
  /\ UNCHANGED <<fn, heap, args, coreLocals, calls>>

\* relative_sse, lines 150-154
RelativeSse ==
  /\ pc = "relative_sse"
  /\ Returns(RelativeSseValue(ArgWeights, ArgFactors, heap[args.X], args.sum_squared_X))
  /\ UNCHANGED <<fn, heap, args, coreLocals, calls>>

\* fit, lines 157-160
Fit ==
  /\ pc = "fit"
  /\ Returns(FitValue(ArgWeights, ArgFactors, heap[args.X], args.sum_squared_X))
  /\ UNCHANGED <<fn, heap, args, coreLocals, calls>>

NextSse == Sse \/ RelativeSse \/ Fit

SpecSse == InitSse /\ [][NextSse]_vars

\* C1: when sum_squared_X is supplied, relative_sse returns sse divided by the
\* supplied value, and fit returns 1 minus that.
C1_UsesSuppliedSumOfSquares ==
  (pc = "done" /\ args.sum_squared_X.given) =>
    LET expected == RDiv(SseValue(ArgWeights, ArgFactors, heap[args.X]),
                         args.sum_squared_X.value)
    IN  /\ fn = "relative_sse" => result = expected
        /\ fn = "fit" => result = RSub(Num(1), expected)

\* ---------------------------------------------------- percentage_variation
Returned(v) == [exc |-> NoError, value |-> v]

Raised(e) == [exc |-> e, value |-> <<>>]

MethodError == "ValueError: Method must be either 'data', 'model' or 'both"

\* bool(weights) in `if weights:` (line 212): None is false, an array of one
\* element has the truth value of the element, a longer array has none
Truth(weights) ==
  IF weights = NoArray THEN Returned(FALSE)
  ELSE IF weights.shape[1] = 1 THEN Returned(weights.data[<<1>>][1] # 0)
  ELSE Raised("ValueError: The truth value of an array with more than one element is ambiguous")

\* lines 212-215: the start value of temp
InitialTemp(weights, rnk) ==
  LET t == Truth(weights)
  IN  IF t.exc # NoError THEN t
      ELSE IF t.value
      THEN \* weights.reshape(rank, 1) @ weight.reshape(1, rank): the left operand
           \* is evaluated first, then the name `weight`, which is not defined
           IF weights.shape[1] # rnk
           THEN Raised("ValueError: cannot reshape array")
           ELSE Raised("NameError: name 'weight' is not defined")
      ELSE \* np.ones(rank, rank): the second positional parameter is the dtype
           Raised("TypeError: Cannot interpret value as a data type")

\* factor_matrix.T @ factor_matrix
Gram(m) == MatMul(Transpose(m), m)

\* lines 217-218: temp *= factor_matrix.T @ factor_matrix for every factor
RECURSIVE CrossProducts(_, _, _)
CrossProducts(temp, fs, n) ==
  IF n > Len(fs) THEN temp
  ELSE CrossProducts(Arr(temp.shape, LAMBDA idx : RMul(temp.data[idx], Gram(fs[n]).data[idx])),
                     fs, n + 1)

\* line 221: np.abs(np.diagonal(temp))
Ssc(temp) == [r \in 1..temp.shape[1] |-> RAbs(temp.data[<<r, r>>])]

DivideAll(v, q) == [r \in 1..Len(v) |-> RDiv(v[r], q)]

\* lines 223-232
ByMethod(temp, x, method) ==
  IF method = "data"
  THEN IF x = NoArray
       THEN Raised("TypeError: The dataset must be provided")
       ELSE Returned(DivideAll(Ssc(temp), SumSquares(x)))
  ELSE IF method = "model"
  THEN Returned(DivideAll(Ssc(temp), RAbs(SumAll(temp))))
  ELSE IF method = "both"
  THEN IF x = NoArray
       THEN Raised("TypeError: unsupported operand type(s) for ** or pow()")
       ELSE Returned(<<DivideAll(Ssc(temp), SumSquares(x)),
                       DivideAll(Ssc(temp), RAbs(SumAll(temp)))>>)
  ELSE Raised(MethodError)

\* percentage_variation, lines 210-232
PercentageVariationOutcome(weights, fs, x, method) ==
  LET rnk == fs[1].shape[2]
      temp == InitialTemp(weights, rnk)
  IN  IF temp.exc # NoError THEN temp
      ELSE ByMethod(CrossProducts(temp.value, fs, 1), x, method)

Methods == {"data", "model", "both", "bogus"}

PvInputs ==
  UNION {
    LET fs == [n \in Modes |-> IF n \in anti THEN FactorAnti(dims[n], R)
                               ELSE FactorDiag(dims[n], R)]
    IN  {[weights |-> w, factors |-> fs, X |-> x, method |-> m] :
           w \in WeightChoices(R) \cup {Arr(<<1>>, LAMBDA idx : Num(0)),
                                        Arr(<<1>>, LAMBDA idx : Num(2))},
           x \in {NoArray, RampTensor(dims)},
           m \in Methods}
    : R \in 1..MaxRank, dims \in [Modes -> 1..MaxDim], anti \in AntiChoices}

InitPv ==
  \E in \in PvInputs :
    /\ fn = "percentage_variation"
    /\ pc = "percentage_variation"
    /\ heap = CallerHeap(in)
    /\ args = [weights |-> IF in.weights = NoArray THEN None ELSE WeightsRef,
               factors |-> [n \in 1..Len(in.factors) |-> FactorRef(n)],
               X |-> IF in.X = NoArray THEN None ELSE XRef,
               method |-> in.method]
    /\ rank = 0 /\ factors = <<>> /\ svds = <<>> /\ X = NoArray /\ i = 0
    /\ axes = <<>> /\ G = NoArray /\ result = <<>> /\ err = NoError
    /\ calls = <<>>

PercentageVariation ==
  /\ pc = "percentage_variation"
  /\ LET out == PercentageVariationOutcome(
                  ArgWeights, ArgFactors,
                  IF args.X = None THEN NoArray ELSE heap[args.X], args.method)
     IN  IF out.exc = NoError
         THEN result' = out.value /\ pc' = "done" /\ err' = err
         ELSE Raise(out.exc) /\ result' = result
  /\ UNCHANGED <<fn, heap, args, coreLocals, calls>>

NextPv == PercentageVariation

SpecPv == InitPv /\ [][NextPv]_vars

PvFinished == fn = "percentage_variation" /\ pc \in {"done", "raised"}

\* C2: with a method outside {"data", "model", "both"} the call ends in the
\* ValueError naming the allowed methods, for every CP tensor and every X.
C2_InvalidMethodError ==
  (PvFinished /\ args.method \notin {"data", "model", "both"}) =>
    (pc = "raised" /\ err = MethodError)

\* Temp of the claim: the elementwise product over the modes of F^T F, scaled
\* by the outer product of the weights when weights are present
ClaimedTemp ==
  LET R == CallerFactor(1).shape[2]
      start == Arr(<<R, R>>,
                   LAMBDA idx : IF HasWeights
                                THEN RMul(heap[WeightsRef].data[<<idx[1]>>],
                                          heap[WeightsRef].data[<<idx[2]>>])
                                ELSE Num(1))
  IN  CrossProducts(start, ArgFactors, 1)

\* C3: with method="model" the call returns, and the value of component r is
\* |Temp[r,r]| / |sum(Temp)|; [1.0] for a single component.
C3_ModelVariationReturned ==
  (PvFinished /\ args.method = "model") =>
    /\ pc = "done"
    /\ result = [r \in 1..CallerFactor(1).shape[2] |->
                   RDiv(RAbs(ClaimedTemp.data[<<r, r>>]), RAbs(SumAll(ClaimedTemp)))]

\* ------------------------------------------------- classification_accuracy
\* The classifier and the metric are the caller's.  Two classifiers stand for
\* them: one predicts the most frequent training label for every sample, one
\* predicts 1 exactly for the samples whose first entry is nonzero.
MatrixRef == <<"factor_matrix", 0>>

ClassifierRef == <<"classifier", 0>>

Count(labels, l) == Cardinality({k \in 1..Len(labels) : labels[k] = l})

MostFrequent(labels) == IF Count(labels, 1) > Count(labels, 0) THEN 1 ELSE 0

\* classifier.fit(X, y): the fitted state; it needs one label per sample
FitOk(matrix, labels) == matrix.shape[1] = Len(labels)

FitState(kind, matrix, labels) ==
  [kind |-> kind, label |-> IF kind = "MostFrequent" THEN MostFrequent(labels) ELSE 0]

\* classifier.predict(X)
Predict(state, matrix) ==
  [k \in 1..matrix.shape[1] |->
     IF state.kind = "MostFrequent" THEN state.label
     ELSE IF matrix.data[<<k, 1>>][1] # 0 THEN 1 ELSE 0]

Accuracy(y_true, y_pred) ==
  Frac(Cardinality({k \in 1..Len(y_true) : y_true[k] = y_pred[k]}), Len(y_true))

\* classifier.score(X, y)
ClassifierScore(state, matrix, labels) == Accuracy(labels, Predict(state, matrix))

\* metric(y_true, y_pred)
MetricValue(metric, y_true, y_pred) ==
  IF metric = "accuracy_score" THEN Accuracy(y_true, y_pred)
  ELSE RSub(Num(1), Accuracy(y_true, y_pred))

\* a bug to compare with: the test of line 169 inverted
UsesScoreInverted(metric) == metric # "None"

\* line 169: if metric is None
UsesScore(metric) == metric = "None"

\* line 171: the arguments handed to the metric
MetricArguments(labels, predicted) == <<labels, predicted>>

Call(name, arguments, ret) == [name |-> name, args |-> arguments, ret |-> ret]

CaInputs ==
  UNION {
    {[factor_matrix |-> m, labels |-> y, classifier |-> c, metric |-> q] :
       m \in FactorChoices(n, R),
       y \in [1..n -> {0, 1}] \cup {[k \in 1..(n + 1) |-> 0]},
       c \in {"MostFrequent", "FirstEntry"},
       q \in {"None", "accuracy_score", "zero_one_loss"}}
    : n \in 1..MaxDim, R \in 1..MaxRank}

InitCa ==
  \E in \in CaInputs :
    /\ fn = "classification_accuracy"
    /\ pc = "classification_accuracy"
    /\ heap = (MatrixRef :> in.factor_matrix)
    /\ args = [factor_matrix |-> MatrixRef, labels |-> in.labels,
               classifier |-> in.classifier, metric |-> in.metric]
    /\ rank = 0 /\ factors = <<>> /\ svds = <<>> /\ X = NoArray /\ i = 0
    /\ axes = <<>> /\ G = NoArray /\ result = Num(0) /\ err = NoError
    /\ calls = <<>>

\* line 168
CallFit ==
  /\ pc = "classification_accuracy"
  /\ calls' = Append(calls, Call("fit", <<heap[args.factor_matrix], args.labels>>, 0))
  /\ IF FitOk(heap[args.factor_matrix], args.labels)
     THEN /\ heap' = (ClassifierRef :>
                        FitState(args.classifier, heap[args.factor_matrix], args.labels)) @@ heap
          /\ pc' = "fitted" /\ err' = err
     ELSE Raise("ValueError") /\ heap' = heap
  /\ UNCHANGED <<fn, args, coreLocals, result>>

\* lines 169-170
CallScore ==
  /\ pc = "fitted" /\ UsesScore(args.metric)
  /\ LET v == ClassifierScore(heap[ClassifierRef], heap[args.factor_matrix], args.labels)
     IN  /\ calls' = Append(calls, Call("score", <<heap[args.factor_matrix], args.labels>>, v))
         /\ result' = v
  /\ pc' = "done"
  /\ UNCHANGED <<fn, heap, args, coreLocals, err>>

\* line 171: classifier.predict(factor_matrix)
CallPredict ==
  /\ pc = "fitted" /\ ~UsesScore(args.metric)
  /\ calls' = Append(calls, Call("predict", <<heap[args.factor_matrix]>>,
                                 Predict(heap[ClassifierRef], heap[args.factor_matrix])))
  /\ pc' = "predicted"
  /\ UNCHANGED <<fn, heap, args, coreLocals, result, err>>

\* line 171: metric(labels, ...)
CallMetric ==
  /\ pc = "predicted"
  /\ LET a == MetricArguments(args.labels, calls[Len(calls)].ret)
         v == MetricValue(args.metric, a[1], a[2])
     IN  /\ calls' = Append(calls, Call("metric", a, v))
         /\ result' = v
  /\ pc' = "done"
  /\ UNCHANGED <<fn, heap, args, coreLocals, err>>

NextCa == CallFit \/ CallScore \/ CallPredict \/ CallMetric

SpecCa == InitCa /\ [][NextCa]_vars

CallNames == [k \in 1..Len(calls) |-> calls[k].name]

\* C6: fit(factor_matrix, labels) is called exactly once and first; without a
\* metric the result is classifier.score(factor_matrix, labels) and predict is
\* never called; with a metric the result is
\* metric(labels, classifier.predict(factor_matrix)) and score is never called.
C6_FitThenScoreOrMetric ==
  LET matrix == heap[args.factor_matrix]
  IN  /\ pc = "classification_accuracy" => calls = <<>>
      /\ pc # "classification_accuracy" =>
           /\ calls[1].name = "fit" /\ calls[1].args = <<matrix, args.labels>>
           /\ \A k \in 2..Len(calls) : calls[k].name # "fit"
      /\ args.metric = "None" => \A k \in 1..Len(calls) : calls[k].name # "predict"
      /\ args.metric # "None" => \A k \in 1..Len(calls) : calls[k].name # "score"
      /\ (pc = "done" /\ args.metric = "None") =>
           /\ CallNames = <<"fit", "score">>
           /\ calls[2].args = <<matrix, args.labels>>
           /\ result = calls[2].ret
      /\ (pc = "done" /\ args.metric # "None") =>
           /\ CallNames = <<"fit", "predict", "metric">>
           /\ calls[2].args = <<matrix>>
           /\ calls[3].args = <<args.labels, calls[2].ret>>
           /\ result = calls[3].ret

C6_Witness ==
  /\ pc = "done" /\ args.metric = "zero_one_loss" /\ args.classifier = "FirstEntry"
  /\ CallNames = <<"fit", "predict", "metric">>
  /\ calls[2].ret # args.labels
  /\ RLess(Num(0), result) /\ RLess(result, Num(1))

C6_WitnessScore ==
  /\ pc = "done" /\ args.metric = "None"
  /\ CallNames = <<"fit", "score">>
  /\ RLess(Num(0), result) /\ RLess(result, Num(1))
====
